---- MODULE Spec2Model ----
(***************************************************************************)
(* layergen: a command-line tool with three commands (create, list,        *)
(* delete) that stage packages under /tmp/layergen/<uuid>, archive them    *)
(* and publish them as an AWS Lambda layer.  The model follows             *)
(* src/src/layergen.py statement by statement.  Every invocation of the    *)
(* tool is a process p; the file system under /tmp/layergen and the uuid   *)
(* generator are shared by the invocations running on the machine.         *)
(*                                                                         *)
(* Python values: an optional string (None or a str) is a sequence of      *)
(* length 0 (None) or 1 (<<s>>).  A string whose characters matter (the    *)
(* layer name, a region, a subprocess's stdout, the package list) is a     *)
(* sequence of tokens, a token being one character or one word; "" is <<>>.*)
(***************************************************************************)
EXTENDS Integers, Sequences, FiniteSets, TLC

VARIABLES
    args,       \* args[p]: the command line of invocation p (click options)
    aws_config, \* what `aws configure get region` answers on this machine
    pc,         \* pc[p]: the statement invocation p executes next
    found,      \* found[p]: the executables shutil.which found
    region,     \* region[p]: the local variable `region`
    temp_dir,   \* temp_dir[p]: the uuid of /tmp/layergen/<uuid>, 0 before line 112
    pending,    \* pending[p]: exit status travelling through the finally block
    exit_code,  \* exit_code[p]: the process's exit status, -1 while it runs
    output,     \* output[p]: the lines click.echo printed
    calls,      \* calls[p]: the subprocesses the invocation spawned, in order
    fs,         \* the file system under /tmp/layergen
    used        \* the uuids uuid4() has handed out

vars == <<args, aws_config, pc, found, region, temp_dir, pending, exit_code,
          output, calls, fs, used>>

----------------------------------------------------------------------------
(* Bounds of the model *)

MaxNameLen == 2
MaxIds == 2

Procs == {1, 2}
UUIDs == 1..MaxIds

----------------------------------------------------------------------------
(* Values *)

None == <<>>
Some(s) == <<s>>

NL == "\n"
NameChars == {"a", "Z", "7", "-"}
OtherChars == {"_", " ", "/", NL}
Chars == NameChars \cup OtherChars
Whitespace == {" ", NL}

LayerNames == UNION {[1..k -> Chars] : k \in 0..MaxNameLen}
ConcurrentLayerNames == {<<"a">>}

Runtimes == {"nodejs", "python"}
Executables == {"aws", "pip", "npm"}
RegionOptions == {None, Some(<<"None">>), Some(<<"us-east-1">>)}
PackageOptions == {<<"requests">>, <<"requests", " ", "boto3">>}
ConcurrentPackages == {<<"requests">>}

\* `aws configure get region`: exit status and stdout.
ConfigAnswers ==
    { [rc |-> 1, stdout |-> <<>>],
      [rc |-> 0, stdout |-> <<NL>>],
      [rc |-> 0, stdout |-> <<"eu-west-2", NL>>] }

StderrText == "ERROR: subprocess failed"

----------------------------------------------------------------------------
(* Python and library semantics the code relies on *)

\* re.match(r"^[a-zA-Z0-9-]+$", s): a non-empty run of name characters from
\* the start; `$` matches at the end of the string and also just before a
\* newline that ends the string.
ReMatch(s) ==
    \E k \in 1..Len(s) :
        /\ \A i \in 1..k : s[i] \in NameChars
        /\ \/ k = Len(s)
           \/ k = Len(s) - 1 /\ s[Len(s)] = NL

RECURSIVE LStrip(_)
LStrip(s) == IF s # <<>> /\ Head(s) \in Whitespace THEN LStrip(Tail(s)) ELSE s

RECURSIVE RStrip(_)
RStrip(s) ==
    IF s # <<>> /\ s[Len(s)] \in Whitespace THEN RStrip(SubSeq(s, 1, Len(s) - 1)) ELSE s

\* str.strip()
Strip(s) == LStrip(RStrip(s))

\* str.split(): the words between runs of whitespace
Split(s) == SelectSeq(s, LAMBDA t : t \notin Whitespace)

\* What subprocess.run keeps of a stream: the text with PIPE (capture_output),
\* None with DEVNULL or an inherited stream.
Captured(setting, text) == IF setting = "PIPE" THEN Some(text) ELSE None

\* Python's `a or b` on optional strings: None and "" are falsy.
PyOr(a, b) == IF a # None /\ a # Some("") THEN a ELSE b

\* f"{x}" of an optional string
Format(x) == IF x = None THEN "None" ELSE x[1]

Line(text, arg) == [text |-> text, arg |-> arg]

Call(prog, sub, rc) ==
    [prog |-> prog, sub |-> sub, rc |-> rc, err |-> IF rc = 0 THEN "" ELSE StderrText,
     root |-> 0, rel |-> "", name |-> <<>>, rt |-> "", region |-> None,
     pkgs |-> <<>>, zip |-> {}]

----------------------------------------------------------------------------
(* The file system under /tmp/layergen *)

EmptyFs == [dirs |-> {}, pkgs |-> {}, zips |-> {}]

Dir(root, rel) == [root |-> root, rel |-> rel]

\* os.makedirs(path, exist_ok=True)
MakeDirs(f, root, rels) == [f EXCEPT !.dirs = @ \cup {Dir(root, r) : r \in rels}]

\* The installer writes every package into root/rel (creating it if needed).
WritePackages(f, root, rel, pkgs, by) ==
    [f EXCEPT !.dirs = @ \cup {Dir(root, ""), Dir(root, rel)},
              !.pkgs = @ \cup {[root |-> root, rel |-> rel, pkg |-> pkgs[i], by |-> by]
                                 : i \in 1..Len(pkgs)}]

\* shutil.make_archive(f"{root}/{name}", "zip", root): everything under root
WriteArchive(f, root, name) ==
    [f EXCEPT !.zips = {z \in @ : ~(z.root = root /\ z.name = name)} \cup
                       {[root |-> root, name |-> name,
                         entries |-> {k \in f.pkgs : k.root = root}]}]

ZipsAt(f, root, name) == {z \in f.zips : z.root = root /\ z.name = name}

\* os.path.exists
DirExists(f, root) == Dir(root, "") \in f.dirs
ZipExists(f, root, name) == ZipsAt(f, root, name) # {}

\* shutil.rmtree(root, ignore_errors=True)
RmTree(f, root) ==
    [dirs |-> {d \in f.dirs : d.root # root},
     pkgs |-> {k \in f.pkgs : k.root # root},
     zips |-> {z \in f.zips : z.root # root}]

----------------------------------------------------------------------------
(* Helpers of the commands *)

Echo(p, line) == output' = [output EXCEPT ![p] = Append(@, line)]
Spawn(p, call) == calls' = [calls EXCEPT ![p] = Append(@, call)]
Goto(p, label) == pc' = [pc EXCEPT ![p] = label]

\* sys.exit(code), or the return of the command, outside any try block
Exit(p, code) ==
    /\ pc' = [pc EXCEPT ![p] = "done"]
    /\ exit_code' = [exit_code EXCEPT ![p] = code]

\* sys.exit(code) or an exception leaving the try block of create: the
\* finally block runs first.  An exception nobody catches (TypeError,
\* OSError, KeyboardInterrupt) ends the process with status 1.
Leave(p, code) ==
    /\ pc' = [pc EXCEPT ![p] = "finally"]
    /\ pending' = [pending EXCEPT ![p] = code]

\* A check_dependencies that does not look for npm
MissingAwsOrPip(w) ==
    IF "aws" \notin w THEN "aws"
    ELSE IF "pip" \notin w THEN "pip"
    ELSE ""

\* check_dependencies: the first executable reported missing, "" when none is
MissingDependency(w) ==
    IF "aws" \notin w THEN "aws"
    ELSE IF "pip" \notin w THEN "pip"
    ELSE IF "npm" \notin w THEN "npm"
    ELSE ""

DependencyMessage(which) ==
    CASE which = "aws" -> "Please install the AWS CLI before running this script."
      [] which = "pip" -> "Please install pip before running this script."
      [] which = "npm" -> "Please install npm before running this script."

\* subprocess.run without check=True: a non-zero status raises nothing
RunWithoutCheck(rc) == FALSE

\* check=True: subprocess.run raises CalledProcessError on a non-zero status
CalledProcessError(rc) == rc # 0

\* get_default_region()
GetDefaultRegion(cfg) == IF cfg.rc = 0 THEN Some(Strip(cfg.stdout)) ELSE None

\* create, line 109: `if region == "None"`
CreateQueriesRegion(r) == r = Some(<<"None">>)

\* list and delete, lines 190 and 231: `if region is None`
IsNone(r) == r = None

RuntimeVersion(rt) == IF rt = "nodejs" THEN "nodejs20.x" ELSE "python3.12"
RuntimeDir(rt) == IF rt = "nodejs" THEN "nodejs" ELSE "python"
Installer(rt) == IF rt = "nodejs" THEN "npm" ELSE "pip"

\* A fixed staging path shared by every invocation
SharedTempPath(issued) == {1}

\* uuid.uuid4(): a value no earlier call returned
Uuid4(issued) == UUIDs \ issued

\* A region formatted into the argument list (str(region)): nothing raises
RegionPassedAsText(r) == FALSE

\* subprocess.run raises TypeError, before it spawns anything, when an
\* element of the argument list is None
ArgvTypeError(r) == r = None

\* A cleanup that removes the archive file only
RemoveArchiveOnly(f, root) == [f EXCEPT !.zips = {z \in @ : z.root # root}]

\* The finally block of create.  The tree is the invocation's own, created
\* a moment earlier, so its removal is taken to succeed.
Cleanup(f, root) == RmTree(f, root)

----------------------------------------------------------------------------
(* check_dependencies() and check_aws_signed_in(), first in every command *)

CheckDependencies(p) ==
    /\ pc[p] = "check_dependencies"
    /\ \E w \in SUBSET Executables :
        /\ found' = [found EXCEPT ![p] = w]
        /\ IF MissingDependency(w) # ""
           THEN /\ Echo(p, Line(DependencyMessage(MissingDependency(w)), ""))
                /\ Exit(p, 1)
           ELSE /\ Goto(p, "check_aws_signed_in")
                /\ UNCHANGED <<output, exit_code>>
    /\ UNCHANGED <<args, aws_config, region, temp_dir, pending, calls, fs, used>>

CheckAwsSignedIn(p) ==
    /\ pc[p] = "check_aws_signed_in"
    /\ \E rc \in {0, 255} :
        /\ Spawn(p, Call("aws", "sts get-caller-identity", rc))
        /\ IF CalledProcessError(rc)
           THEN /\ Echo(p, Line("Please sign in to the AWS CLI before running this script.", ""))
                /\ Exit(p, 1)
           ELSE /\ Goto(p, IF args[p].cmd = "create" THEN "validate" ELSE "resolve_region")
                /\ UNCHANGED <<output, exit_code>>
    /\ UNCHANGED <<args, aws_config, found, region, temp_dir, pending, fs, used>>

----------------------------------------------------------------------------
(* create *)

ValidateLayerName(p) ==
    /\ pc[p] = "validate"
    /\ IF ~ReMatch(args[p].layer_name)
       THEN /\ Echo(p, Line("Error: Layer name can only contain letters, numbers, and dashes.", ""))
            /\ Exit(p, 1)
       ELSE /\ Goto(p, "runtime")
            /\ UNCHANGED <<output, exit_code>>
    /\ UNCHANGED <<args, aws_config, found, region, temp_dir, pending, calls, fs, used>>

SelectRuntime(p) ==
    /\ pc[p] = "runtime"
    /\ Echo(p, Line("You selected", RuntimeVersion(args[p].runtime)))
    /\ Goto(p, "region")
    /\ UNCHANGED <<args, aws_config, found, region, temp_dir, pending, exit_code,
                   calls, fs, used>>

CreateRegion(p) ==
    /\ pc[p] = "region"
    /\ IF CreateQueriesRegion(region[p])
       THEN /\ Spawn(p, Call("aws", "configure get region", aws_config.rc))
            /\ region' = [region EXCEPT ![p] = GetDefaultRegion(aws_config)]
       ELSE UNCHANGED <<calls, region>>
    /\ Goto(p, "makedirs")
    /\ UNCHANGED <<args, aws_config, found, temp_dir, pending, exit_code, output,
                   fs, used>>

MakeStaging(p) ==
    /\ pc[p] = "makedirs"
    /\ \E u \in Uuid4(used) :
        /\ used' = used \cup {u}
        /\ temp_dir' = [temp_dir EXCEPT ![p] = u]
        /\ fs' = MakeDirs(fs, u, {"", RuntimeDir(args[p].runtime)})
    /\ Goto(p, "install")
    /\ UNCHANGED <<args, aws_config, found, region, pending, exit_code, output, calls>>

\* The stream settings create passes to subprocess.run for the installer and
\* for publish-layer-version (stdout=, stderr=)
CreateStdout == "DEVNULL"
CreateStderr == "DEVNULL"

\* f"Error: {e.stderr or e.output}" for the CalledProcessError of `call`
ErrorLine(call) ==
    Line("Error:", Format(PyOr(Captured(CreateStderr, call.err),
                               Captured(CreateStdout, "")))) 

\* An interrupt signal arriving while the invocation waits for the child:
\* the child dies of SIGINT (status -2) and run() raises KeyboardInterrupt.
Interrupted(rc) == rc = -2

InstallCall(p, rc) ==
    [Call(Installer(args[p].runtime), "install", rc) EXCEPT
        !.root = temp_dir[p],
        !.rel = RuntimeDir(args[p].runtime),
        !.pkgs = Split(args[p].packages)]

Install(p) ==
    /\ pc[p] = "install"
    /\ \E rc \in {0, 1, -2} :
       LET pkgs == Split(args[p].packages)
           rel == RuntimeDir(args[p].runtime)
           f0 == IF args[p].runtime = "nodejs"
                 THEN MakeDirs(fs, temp_dir[p], {"nodejs/node_modules"})
                 ELSE fs
           call == InstallCall(p, rc)
       IN  /\ Spawn(p, call)
           /\ IF Interrupted(rc)
              THEN /\ \E n \in 0..Len(pkgs) :
                        fs' = WritePackages(f0, temp_dir[p], rel, SubSeq(pkgs, 1, n), p)
                   /\ Echo(p, Line("Installing packages", Installer(args[p].runtime)))
                   /\ Leave(p, 1)
              ELSE IF CalledProcessError(rc)
              THEN /\ \E n \in 0..(Len(pkgs) - 1) :
                        fs' = WritePackages(f0, temp_dir[p], rel, SubSeq(pkgs, 1, n), p)
                   /\ output' = [output EXCEPT ![p] =
                          @ \o <<Line("Installing packages", Installer(args[p].runtime)),
                                 ErrorLine(call)>>]
                   /\ Leave(p, 1)
              ELSE /\ fs' = WritePackages(f0, temp_dir[p], rel, pkgs, p)
                   /\ output' = [output EXCEPT ![p] =
                          @ \o <<Line("Installing packages", Installer(args[p].runtime)),
                                 Line("Installed packages:", "")>>]
                   /\ Goto(p, "make_archive")
                   /\ UNCHANGED pending
    /\ UNCHANGED <<args, aws_config, found, region, temp_dir, exit_code, used>>

\* shutil.make_archive: the archive is written, or it raises; line 144 also
\* provides for a call that returns without the file being there.
MakeArchive(p) ==
    /\ pc[p] = "make_archive"
    /\ \/ /\ DirExists(fs, temp_dir[p])
          /\ fs' = WriteArchive(fs, temp_dir[p], args[p].layer_name)
          /\ Goto(p, "exists")
          /\ UNCHANGED pending
       \/ /\ Goto(p, "exists")
          /\ UNCHANGED <<fs, pending>>
       \/ /\ Leave(p, 1)
          /\ UNCHANGED fs
    /\ UNCHANGED <<args, aws_config, found, region, temp_dir, exit_code, output,
                   calls, used>>

CheckZip(p) ==
    /\ pc[p] = "exists"
    /\ IF ~ZipExists(fs, temp_dir[p], args[p].layer_name)
       THEN /\ Echo(p, Line("Zip file was not created.", ""))
            /\ Leave(p, 1)
       ELSE /\ Echo(p, Line("Uploading Lambda Layer from", ""))
            /\ Goto(p, "publish")
            /\ UNCHANGED pending
    /\ UNCHANGED <<args, aws_config, found, region, temp_dir, exit_code, calls, fs, used>>

\* What the provider CLI reads at fileb://{zip_file}
ZipContents(f, root, name) == UNION {z.entries : z \in ZipsAt(f, root, name)}

PublishCall(p, rc) ==
    [Call("aws", "lambda publish-layer-version", rc) EXCEPT
        !.root = temp_dir[p],
        !.name = args[p].layer_name,
        !.rt = RuntimeVersion(args[p].runtime),
        !.region = region[p],
        !.zip = ZipContents(fs, temp_dir[p], args[p].layer_name)]

Publish(p) ==
    /\ pc[p] = "publish"
    /\ IF ArgvTypeError(region[p])
       THEN /\ Leave(p, 1)
            /\ UNCHANGED <<calls, output>>
       ELSE \E rc \in {0, 254, -2} :
            /\ rc = 0 => ZipExists(fs, temp_dir[p], args[p].layer_name)
            /\ Spawn(p, PublishCall(p, rc))
            /\ IF Interrupted(rc)
               THEN /\ Leave(p, 1)
                    /\ UNCHANGED output
               ELSE IF CalledProcessError(rc)
               THEN /\ Echo(p, ErrorLine(PublishCall(p, rc)))
                    /\ Leave(p, 1)
               ELSE /\ Echo(p, Line("has been successfully created and uploaded to AWS Lambda in",
                                    ""))
                    /\ Leave(p, 0)
    /\ UNCHANGED <<args, aws_config, found, region, temp_dir, exit_code, fs, used>>

Finally(p) ==
    /\ pc[p] = "finally"
    /\ fs' = Cleanup(fs, temp_dir[p])
    /\ Exit(p, pending[p])
    /\ UNCHANGED <<args, aws_config, found, region, temp_dir, pending, output, calls, used>>

----------------------------------------------------------------------------
(* list and delete *)

NoRegionLine ==
    Line("Error: No AWS region specified. Please set AWS_DEFAULT_REGION or configure your AWS CLI.",
         "")

\* Lines 190-197 of list and 231-238 of delete
ResolveRegion(p) ==
    /\ pc[p] = "resolve_region"
    /\ LET queried == IsNone(region[p])
           r == IF queried THEN GetDefaultRegion(aws_config) ELSE region[p]
       IN  /\ region' = [region EXCEPT ![p] = r]
           /\ IF queried
              THEN Spawn(p, Call("aws", "configure get region", aws_config.rc))
              ELSE UNCHANGED calls
           /\ IF IsNone(r)
              THEN /\ Echo(p, NoRegionLine)
                   /\ Exit(p, IF args[p].cmd = "list" THEN 1 ELSE 0)
              ELSE /\ Goto(p, IF args[p].cmd = "list" THEN "list_layers"
                                                       ELSE "delete_layer_version")
                   /\ UNCHANGED <<output, exit_code>>
    /\ UNCHANGED <<args, aws_config, found, temp_dir, pending, fs, used>>

ListLayers(p) ==
    /\ pc[p] = "list_layers"
    /\ \E rc \in {0, 254} :
        /\ Spawn(p, [Call("aws", "lambda list-layers", rc) EXCEPT !.region = region[p]])
        /\ IF rc # 0
           THEN Echo(p, Line("Error listing layers.", ""))
           ELSE Echo(p, Line("result.stdout", ""))
    /\ Exit(p, 0)
    /\ UNCHANGED <<args, aws_config, found, region, temp_dir, pending, fs, used>>

DeleteLayerVersion(p) ==
    /\ pc[p] = "delete_layer_version"
    /\ \E rc \in {0, 254} :
        /\ Spawn(p, [Call("aws", "lambda delete-layer-version", rc) EXCEPT
                        !.name = args[p].layer_name, !.region = region[p]])
        /\ IF CalledProcessError(rc)
           THEN Echo(p, Line("Error deleting the layer.", ""))
           ELSE Echo(p, Line("has been deleted.", ""))
    /\ Exit(p, 0)
    /\ UNCHANGED <<args, aws_config, found, region, temp_dir, pending, fs, used>>

----------------------------------------------------------------------------
(* Specifications *)

CreateArgs(names, packages) ==
    [cmd : {"create"}, layer_name : names, runtime : Runtimes,
     packages : packages, region : RegionOptions]

ListArgs ==
    [cmd : {"list"}, layer_name : {<<>>}, runtime : {"python"},
     packages : {<<>>}, region : RegionOptions]

DeleteArgs(names) ==
    [cmd : {"delete"}, layer_name : names, runtime : {"python"},
     packages : {<<>>}, region : RegionOptions]

NotLaunched ==
    [cmd |-> "none", layer_name |-> <<>>, runtime |-> "python",
     packages |-> <<>>, region |-> None]

CommandLines(names, packages) ==
    CreateArgs(names, packages) \cup ListArgs \cup DeleteArgs(names)

Launched(p) == args[p].cmd # "none"

InitWith(a) ==
    /\ args = a
    /\ aws_config \in ConfigAnswers
    /\ pc = [p \in Procs |-> IF a[p].cmd = "none" THEN "idle" ELSE "check_dependencies"]
    /\ found = [p \in Procs |-> {}]
    /\ region = [p \in Procs |-> a[p].region]
    /\ temp_dir = [p \in Procs |-> 0]
    /\ pending = [p \in Procs |-> -1]
    /\ exit_code = [p \in Procs |-> -1]
    /\ output = [p \in Procs |-> <<>>]
    /\ calls = [p \in Procs |-> <<>>]
    /\ fs = EmptyFs
    /\ used = {}

\* One invocation of the tool, with any command line.
Init ==
    \E a \in CommandLines(LayerNames, PackageOptions) :
        InitWith([p \in Procs |-> IF p = 1 THEN a ELSE NotLaunched])

\* Two invocations of the tool running at the same time.
InitConcurrent ==
    \E a \in [Procs -> CommandLines(ConcurrentLayerNames, ConcurrentPackages)] :
        InitWith(a)

Step(p) ==
    \/ CheckDependencies(p)
    \/ CheckAwsSignedIn(p)
    \/ ValidateLayerName(p)
    \/ SelectRuntime(p)
    \/ CreateRegion(p)
    \/ MakeStaging(p)
    \/ Install(p)
    \/ MakeArchive(p)
    \/ CheckZip(p)
    \/ Publish(p)
    \/ Finally(p)
    \/ ResolveRegion(p)
    \/ ListLayers(p)
    \/ DeleteLayerVersion(p)

Next == \E p \in Procs : Step(p)

Spec == Init /\ [][Next]_vars

SpecConcurrent == InitConcurrent /\ [][Next]_vars

----------------------------------------------------------------------------
(* Vocabulary of the properties *)

Done(p) == pc[p] = "done"
Is(p, c) == args[p].cmd = c

CallsTo(p, sub) == {i \in DOMAIN calls[p] : calls[p][i].sub = sub}
InstallCalls(p) == CallsTo(p, "install")
PublishCalls(p) == CallsTo(p, "lambda publish-layer-version")
ConfigQueries(p) == CallsTo(p, "configure get region")
Printed(p, text) == \E i \in DOMAIN output[p] : output[p][i].text = text

\* Both checks at the top of the command passed.
GatePassed(p) ==
    /\ pc[p] # "check_dependencies"
    /\ found[p] = Executables
    /\ \E i \in CallsTo(p, "sts get-caller-identity") : calls[p][i].rc = 0

\* A layer name of [A-Za-z0-9-]+
ValidName(s) == s # <<>> /\ \A i \in DOMAIN s : s[i] \in NameChars

\* The machine has no default region: the query fails or answers nothing.
NoDefaultRegion == aws_config.rc # 0 \/ Strip(aws_config.stdout) = <<>>

\* Nothing of invocation p's staging area is on disk.
NoTempFiles(p) ==
    /\ \A d \in fs.dirs : d.root # temp_dir[p]
    /\ \A k \in fs.pkgs : k.root # temp_dir[p]
    /\ \A z \in fs.zips : z.root # temp_dir[p]

----------------------------------------------------------------------------
(* Properties *)

\* C1: when a create invocation that made its staging directory has
\* terminated, whatever the exit path, neither /tmp/layergen/<id> nor the
\* archive <layer-name>.zip in it is on disk.
CleanupInvariant ==
    \A p \in Procs :
        Done(p) /\ temp_dir[p] # 0 =>
            /\ ~DirExists(fs, temp_dir[p])
            /\ ~ZipExists(fs, temp_dir[p], args[p].layer_name)
            /\ NoTempFiles(p)

\* C1 witness: a create whose archive was written and whose publish call
\* exited non-zero has terminated.
CleanupWitness ==
    \E p \in Procs :
        /\ Done(p) /\ temp_dir[p] # 0 /\ exit_code[p] = 1
        /\ \E i \in PublishCalls(p) : calls[p][i].rc = 254 /\ calls[p][i].zip # {}

\* C2: scenario A.  create with a valid name, runtime python, no --region
\* (the machine having a default region), all dependencies, an authenticated
\* session, an installer exiting 0, an archive that is written and a
\* provider accepting every call ends with one
\* installer call targeting <staging>/python, one publish-layer-version call
\* tagged python3.12, exit code 0 and no temporary files.
ScenarioA ==
    \A p \in Procs :
        ( /\ Is(p, "create") /\ Done(p) /\ GatePassed(p)
          /\ ValidName(args[p].layer_name)
          /\ args[p].runtime = "python"
          /\ args[p].region = None /\ ~NoDefaultRegion
          /\ \A i \in DOMAIN calls[p] : calls[p][i].rc = 0
          /\ Printed(p, "Uploading Lambda Layer from") )
        => /\ Cardinality(InstallCalls(p)) = 1
           /\ \A i \in InstallCalls(p) :
                calls[p][i].root = temp_dir[p] /\ calls[p][i].rel = "python"
           /\ Cardinality(PublishCalls(p)) = 1
           /\ \A i \in PublishCalls(p) :
                calls[p][i].rt = "python3.12" /\ calls[p][i].name = args[p].layer_name
           /\ exit_code[p] = 0
           /\ NoTempFiles(p)

\* C3: scenario B.  Once the installer (npm or pip) of a create has exited
\* non-zero, no archive is written and no publish call is made, an error
\* line is printed, and the process ends with status 1 and no temporary
\* files.
ScenarioB ==
    \A p \in Procs :
        (Is(p, "create") /\ \E i \in InstallCalls(p) : calls[p][i].rc = 1)
        => /\ pc[p] \in {"finally", "done"}
           /\ ~ZipExists(fs, temp_dir[p], args[p].layer_name)
           /\ PublishCalls(p) = {}
           /\ Printed(p, "Error:")
           /\ pending[p] = 1
           /\ Done(p) => exit_code[p] = 1 /\ NoTempFiles(p)

\* C3 witness: a nodejs create whose npm install exited non-zero has
\* terminated.
ScenarioBWitness ==
    \E p \in Procs :
        /\ Is(p, "create") /\ Done(p) /\ args[p].runtime = "nodejs"
        /\ \E i \in InstallCalls(p) : calls[p][i].rc = 1 /\ calls[p][i].prog = "npm"

\* C4: a create run without --region on a machine with no default region
\* never issues the publish-layer-version call and ends with a non-zero
\* status, and when its checks and name validation pass it has invoked the
\* installer.
RegionAbsentCreate ==
    \A p \in Procs :
        (Is(p, "create") /\ args[p].region = None /\ NoDefaultRegion)
        => /\ PublishCalls(p) = {}
           /\ Done(p) => /\ exit_code[p] # 0
                         /\ GatePassed(p) /\ Printed(p, "You selected")
                              => InstallCalls(p) # {}

\* C4 witness: such a create installed and archived its packages, reached
\* the publish step and ended with status 1.
RegionAbsentWitness ==
    \E p \in Procs :
        /\ Is(p, "create") /\ args[p].region = None /\ NoDefaultRegion
        /\ Done(p) /\ exit_code[p] = 1
        /\ \E i \in InstallCalls(p) : calls[p][i].rc = 0
        /\ Printed(p, "Uploading Lambda Layer from")

\* The region a command has resolved, once it is past its resolution code.
PastResolution(p) ==
    \/ Is(p, "create") /\ temp_dir[p] # 0
    \/ ~Is(p, "create") /\ Launched(p) /\ GatePassed(p)
         /\ pc[p] # "resolve_region"

\* C5: region resolution in create, list and delete.  An explicit --region
\* is used unchanged and the configuration is not queried; without one, a
\* configured non-empty region R is used; without one and with a failing
\* or empty configuration answer, the region is nothing, never "".
RegionResolution ==
    \A p \in Procs :
        PastResolution(p) =>
            /\ args[p].region \notin {None, Some(<<"None">>)}
                 => region[p] = args[p].region /\ ConfigQueries(p) = {}
            /\ args[p].region = None /\ ~NoDefaultRegion
                 => region[p] = Some(Strip(aws_config.stdout))
            /\ args[p].region = None /\ NoDefaultRegion
                 => region[p] = None

\* C6: list or delete run without --region on a machine with no default
\* region prints the 'No AWS region specified' line and never calls
\* list-layers / delete-layer-version; list exits 1, delete exits 0.
UnresolvedRegionListDelete ==
    \A p \in Procs :
        ( /\ Is(p, "list") \/ Is(p, "delete")
          /\ args[p].region = None /\ NoDefaultRegion /\ GatePassed(p) )
        => /\ CallsTo(p, "lambda list-layers") = {}
           /\ CallsTo(p, "lambda delete-layer-version") = {}
           /\ pc[p] \in {"resolve_region", "done"}
           /\ Done(p) => /\ Printed(p, NoRegionLine.text)
                         /\ exit_code[p] = IF Is(p, "list") THEN 1 ELSE 0

\* C7: create accepts exactly the layer names of [A-Za-z0-9-]+.  A valid
\* name goes on to staging; any other name (empty, or holding a space, an
\* underscore, a slash or a newline, also as its last character) prints the
\* error and exits 1 with no staging directory and no installer or publish
\* call.
LayerNameValidation ==
    \A p \in Procs :
        ( /\ Is(p, "create") /\ GatePassed(p) /\ pc[p] # "validate" )
        => IF ValidName(args[p].layer_name)
           THEN /\ ~Printed(p, "Error: Layer name can only contain letters, numbers, and dashes.")
                /\ pc[p] = "runtime" \/ Printed(p, "You selected")
           ELSE /\ Printed(p, "Error: Layer name can only contain letters, numbers, and dashes.")
                /\ Done(p) /\ exit_code[p] = 1
                /\ temp_dir[p] = 0
                /\ InstallCalls(p) = {} /\ PublishCalls(p) = {}

\* C8: in every command the dependency check and then the identity probe
\* come first; with aws, pip or npm missing, or the probe exiting non-zero,
\* the process prints the line naming what is missing and exits non-zero,
\* and it queries no region, creates no staging directory and makes no
\* installer, publish, list or delete call.
PreconditionGate ==
    \A p \in Procs :
        /\ calls[p] # <<>> =>
              calls[p][1].sub = "sts get-caller-identity" /\ found[p] = Executables
        /\ ( /\ Launched(p) /\ pc[p] \notin {"check_dependencies", "check_aws_signed_in"}
             /\ ~GatePassed(p) )
           => /\ Done(p) /\ exit_code[p] # 0
              /\ IF found[p] # Executables
                 THEN /\ \E m \in Executables \ found[p] :
                            output[p] = <<Line(DependencyMessage(m), "")>>
                      /\ calls[p] = <<>>
                 ELSE /\ output[p] =
                            <<Line("Please sign in to the AWS CLI before running this script.", "")>>
                      /\ Len(calls[p]) = 1
              /\ temp_dir[p] = 0
              /\ fs = EmptyFs

\* C8 witness: an invocation that found aws and pip but not npm has
\* terminated.
PreconditionGateWitness ==
    \E p \in Procs : Done(p) /\ found[p] = {"aws", "pip"} /\ exit_code[p] = 1

\* C9: two create invocations running at the same time never share a
\* staging root; every package under an invocation's root, in its archive
\* and in what it publishes was staged by its own installer call; and from
\* staging until its publish step an invocation's staging directory, and at
\* the publish step its archive, are on disk whatever the other one cleans
\* up.
StagingIsolation ==
    \A p \in Procs :
        /\ \A q \in Procs \ {p} :
              temp_dir[p] # 0 /\ temp_dir[q] # 0 => temp_dir[p] # temp_dir[q]
        /\ \A k \in fs.pkgs : k.root = temp_dir[p] => k.by = p
        /\ \A z \in fs.zips : z.root = temp_dir[p] =>
              \A k \in z.entries : k.by = p /\ k.root = temp_dir[p]
        /\ \A i \in PublishCalls(p) :
              \A k \in calls[p][i].zip : k.by = p /\ k.root = temp_dir[p]
        /\ pc[p] \in {"install", "make_archive", "exists", "publish"}
              => DirExists(fs, temp_dir[p])
        /\ pc[p] = "publish" => ZipExists(fs, temp_dir[p], args[p].layer_name)

\* C9 witness: one create has published its packages and cleaned up while
\* the other, staged at the same time, is at its publish step.
StagingIsolationWitness ==
    \E p \in Procs : \E q \in Procs \ {p} :
        /\ Done(p) /\ \E i \in PublishCalls(p) : calls[p][i].rc = 0 /\ calls[p][i].zip # {}
        /\ pc[q] = "publish" /\ ZipContents(fs, temp_dir[q], args[q].layer_name) # {}

\* C10: whenever the installer or the publish subprocess of a create exits
\* non-zero, the error line printed carries what that subprocess wrote to
\* stderr (or its output).
FailureMessageVerbatim ==
    \A p \in Procs :
        \A i \in InstallCalls(p) \cup PublishCalls(p) :
            calls[p][i].rc \notin {0, -2} =>
                \E j \in DOMAIN output[p] :
                    output[p][j].text = "Error:" /\ output[p][j].arg = calls[p][i].err

====
